---- MODULE Spec2Model ----
(***************************************************************************)
(* Model of the acquisition flow (download / unpackFirefoxSource /         *)
(* downloadFirefoxSource / onData), of the configuration merge             *)
(* (applyConfig / build) and of the build-mode settings generator          *)
(* (internalMozconfg).                                                     *)
(*                                                                         *)
(* Strings are sequences of characters; a fixed literal of the source is a *)
(* one-element sequence holding the literal.  Every download invocation is *)
(* its own node process: the module-level variables of download.ts         *)
(* (initProgress, initProgressText) and the interval timer are per run,    *)
(* while the file system below the project root is shared by the runs.     *)
(***************************************************************************)
EXTENDS Integers, Sequences, FiniteSets, TLC

VARIABLES
    \* ---- acquisition flow ------------------------------------------------
    version,          \* gFFVersion = getConfig().version.version (<<>>: not configured)
    platform,         \* process.platform
    skipInit,         \* per run: process.env.CI_SKIP_INIT is set
    engines,          \* the directory <cwd>/.dotbuild/engines
    engineDir,        \* the directory ENGINE_DIR
    mozbuild,         \* ~/.mozbuild exists
    metadata,         \* build metadata has been written
    pc,               \* per run: where the run is
    exitCode,         \* per run: NoExit, or {code given to process.exit}
    timer,            \* per run: the setInterval callback is registered and live
    initProgress,     \* per run: the ora handle (a record) or Null
    initProgressText, \* per run: the Progress Text
    fetchUrl,         \* per run: the URL handed to downloadFileToLocation
    trace,            \* per run: the calls the run has made, in order
    wsAtInvoke,       \* per run: did a workspace exist when download was invoked
    \* ---- configuration merge and build -----------------------------------
    options,          \* the Options of the build in progress: arch and ui
    commonFile,       \* CONFIGS_DIR/common/mozconfig
    osFile,           \* CONFIGS_DIR/<os>/mozconfig
    osFileI686,       \* CONFIGS_DIR/<os>/mozconfig-i686
    customFile,       \* <cwd>/mozconfig, the user override
    machExists,       \* ENGINE_DIR/mach exists
    brandingMelon,    \* ENGINE_DIR/branding/melon exists
    mozconfigFile,    \* ENGINE_DIR/mozconfig, the merged configuration
    changeset,        \* the changeset applyConfig has resolved in this build
    bpc,              \* where build() is
    bout,             \* what the build in progress has logged, in order
    builds,           \* number of build() invocations so far
    machInvoked,      \* the build in progress has dispatched ./mach
    fileAtStart,      \* ENGINE_DIR/mozconfig as the build in progress found it
    written,          \* number of writes of ENGINE_DIR/mozconfig by this build
    \* ---- build-mode settings generator ----------------------------------
    surferPlatform,   \* process.surferPlatform when mozconfig.ts is loaded
    updateHostname,   \* config.updateHostname (<<>>: not set)
    brand,            \* the brand of the last internalMozconfg call
    buildMode,        \* the build mode of the last internalMozconfg call
    fragment,         \* what the last internalMozconfg call returned, as lines
    \* ---- the output of one archive tool process, chunk by chunk ----------
    tarOutput,        \* all that tar has written to its stdout so far
    chunks,           \* number of chunks its stdout has delivered so far
    progressText      \* initProgressText of the process that spawned it

dvars == <<version, platform, skipInit, engines, engineDir, mozbuild, metadata,
           pc, exitCode, timer, initProgress, initProgressText, fetchUrl,
           trace, wsAtInvoke>>

bvars == <<options, commonFile, osFile, osFileI686, customFile, machExists,
           brandingMelon, mozconfigFile, changeset, bpc, bout, builds, machInvoked,
           fileAtStart, written>>

mvars == <<surferPlatform, updateHostname, brand, buildMode, fragment>>

ovars == <<tarOutput, chunks, progressText>>

pvars == <<mvars, ovars>>

vars == <<dvars, bvars, pvars>>

----------------------------------------------------------------------------
(* Sets the inputs are drawn from *)

Runs == {"r1", "r2"}

\* number of build invocations in a behaviour
MaxBuilds == 2

\* chunks of tar output followed in the specification of onData
MaxChunks == 3

\* a directory: missing, or present with a set of entries
NoDir == [exists |-> FALSE, files |-> {}]
Dir(files) == [exists |-> TRUE, files |-> files]

\* the value of initProgress after `initProgress = null`
Null == [live |-> FALSE, spinning |-> FALSE, text |-> <<>>, prefixText |-> <<>>]

\* exitCode of a process that has not called process.exit
NoExit == {}

\* version strings: absent, a release, a beta of the same release, a beta of
\* another release
Versions == { <<>>, <<"9", "1">>, <<"9", "1", "b", "2">>, <<"8", "b">> }

Platforms == {"linux", "win32"}

\* output chunks of the archive tool: a line, and a blank line
Chunks == { <<"x", " ", "f">>, <<" ", "\n">> }

----------------------------------------------------------------------------
(* String helpers *)

RECURSIVE IndexFrom(_, _, _)
\* first index >= i of character c in s, or 0
IndexFrom(s, c, i) ==
    IF i > Len(s) THEN 0
    ELSE IF s[i] = c THEN i
    ELSE IndexFrom(s, c, i + 1)

\* String.prototype.includes for a one-character needle
Includes(s, c) == IndexFrom(s, c, 1) # 0

\* s.split(c)[0]: the part of s before the first c (all of s if there is none)
SplitFirst(s, c) ==
    IF Includes(s, c) THEN SubSeq(s, 1, IndexFrom(s, c, 1) - 1) ELSE s

\* number of times e occurs in sequence s
Count(s, e) == Cardinality({i \in 1..Len(s) : s[i] = e})

\* index of the first e in s, or 0
Pos(s, e) == IF \E i \in 1..Len(s) : s[i] = e
             THEN CHOOSE i \in 1..Len(s) : s[i] = e /\ \A j \in 1..(i - 1) : s[j] # e
             ELSE 0

\* e occurs in s
Has(s, e) == \E i \in 1..Len(s) : s[i] = e

----------------------------------------------------------------------------
(* Collaborators that live outside the two source files *)

\* log.error prints its diagnostic and returns to the caller: download() itself
\* calls process.exit(1) right after it, and nothing in downloadFirefoxSource
\* stops after it.
LogErrorReturns == TRUE

ErrorCalls == {"log.error:no-version", "log.error:version-exists",
               "log.error:workspace-exists"}

\* the calls of a synchronous stretch that are really made: all of them when
\* log.error returns, those up to the first log.error when it throws
Ran(calls) ==
    IF LogErrorReturns \/ ~\E i \in 1..Len(calls) : calls[i] \in ErrorCalls
    THEN calls
    ELSE SubSeq(calls, 1,
                CHOOSE i \in 1..Len(calls) :
                    /\ calls[i] \in ErrorCalls
                    /\ \A j \in 1..(i - 1) : calls[j] \notin ErrorCalls)

\* fs.rmdirSync inside try/catch: removes an empty directory; a missing or a
\* non-empty directory makes it throw, which the caller swallows
RmdirSync(dir) == IF dir.exists /\ dir.files = {} THEN NoDir ELSE dir

\* fs-extra ensureDirSync: creates the directory when it is missing
EnsureDirSync(dir) == IF dir.exists THEN dir ELSE Dir({})

\* fs.existsSync on a directory
ExistsSync(dir) == dir.exists

----------------------------------------------------------------------------
(* downloadFirefoxSource *)

UrlBase(v) == <<"https://archive.mozilla.org/pub/firefox/releases/">> \o v \o <<"/source/">>

SourceFileName(v) == <<"firefox-">> \o v \o <<".source.tar.xz">>

SourceUrl(v) == UrlBase(v) \o SourceFileName(v)

\* `firefox-${version.split('b')[0]}`
VersionDir(v) == <<"firefox-">> \o SplitFirst(v, "b")

VersionExists(v, eng) == VersionDir(v) \in EnsureDirSync(eng).files

\* variant: the advisory only for a version that ends in "b"
IsBeta_EndsWith(v) == v # <<>> /\ v[Len(v)] = "b"

\* version.includes('b')
IsBeta(v) == Includes(v, "b")

\* the calls downloadFirefoxSource makes up to its await, in order
DownloadFirefoxSourceCalls(v, eng, edir) ==
    <<"resolveUrl", "log.info:locating", "ensureDir:engines">>
    \o (IF VersionExists(v, eng) THEN <<"log.error:version-exists">> ELSE <<>>)
    \o (IF IsBeta(v) THEN <<"log.warning:beta">> ELSE <<>>)
    \o (IF ExistsSync(edir) THEN <<"log.error:workspace-exists">> ELSE <<>>)
    \o <<"log.info:downloading", "fetch.start">>

----------------------------------------------------------------------------
(* download: from the call to the first await *)

\* `!version`
VersionMissing(v) == v = <<>>

\* variant: the process.exit(1) after the diagnostic is missing
DownloadCalls_NoExit(v, eng, edir) ==
    <<"setInterval">>
    \o (IF VersionMissing(v) THEN <<"log.error:no-version">> ELSE <<>>)
    \o DownloadFirefoxSourceCalls(v, eng, edir)

\* lines 43-61: the calls download makes up to its first await, in order
DownloadCalls(v, eng, edir) ==
    <<"setInterval">>
    \o (IF VersionMissing(v)
        THEN <<"log.error:no-version", "process.exit(1)">>
        ELSE DownloadFirefoxSourceCalls(v, eng, edir))

Last(s) == s[Len(s)]

\* download() has no catch: a rejection leaves it unhandled, and the runtime
\* may end the process for that with exit code 1
UnhandledExit == "unhandled-rejection:exit(1)"

\* variant: a failed fetch puts the run back to its start
PcAfter_Retry(calls, awaiting) ==
    IF Last(calls) \in {"process.exit(1)", "process.exit(0)", UnhandledExit} THEN "exited"
    ELSE IF Last(calls) = "fetch.fail" THEN "not-started"
    ELSE IF Last(calls) \in ErrorCalls THEN "rejected"
    ELSE awaiting

\* where a run is after the calls of a synchronous stretch
PcAfter(calls, awaiting) ==
    IF Last(calls) \in {"process.exit(1)", "process.exit(0)", UnhandledExit} THEN "exited"
    ELSE IF Last(calls) \in ErrorCalls \/ Last(calls) = "fetch.fail" THEN "rejected"
    ELSE awaiting

ExitCodeAfter(calls) ==
    IF Last(calls) \in {"process.exit(1)", UnhandledExit} THEN {1}
    ELSE IF Last(calls) = "process.exit(0)" THEN {0}
    ELSE NoExit

Download(r) ==
    /\ pc[r] = "not-started"
    /\ LET calls == Ran(DownloadCalls(version, engines, engineDir)) IN
         /\ trace' = [trace EXCEPT ![r] = calls]
         /\ pc' = [pc EXCEPT ![r] = PcAfter(calls, "downloading")]
         /\ exitCode' = [exitCode EXCEPT ![r] = ExitCodeAfter(calls)]
         \* process.exit ends the process and with it the interval
         /\ timer' = [timer EXCEPT ![r] = Has(calls, "setInterval")
                                          /\ ExitCodeAfter(calls) = NoExit]
         /\ engines' = IF Has(calls, "ensureDir:engines")
                       THEN EnsureDirSync(engines) ELSE engines
         /\ fetchUrl' = [fetchUrl EXCEPT ![r] =
                            IF Has(calls, "fetch.start") THEN SourceUrl(version) ELSE <<>>]
    /\ wsAtInvoke' = [wsAtInvoke EXCEPT ![r] =
                        IF ~VersionMissing(version)
                           /\ (VersionExists(version, engines) \/ ExistsSync(engineDir))
                        THEN "present" ELSE "absent"]
    /\ UNCHANGED <<version, platform, skipInit, engineDir, mozbuild, metadata,
                   initProgress, initProgressText>>
    /\ UNCHANGED <<bvars, pvars>>

\* downloadFileToLocation rejects: download() rejects with it; whether the
\* process outlives the unhandled rejection depends on the runtime
FetchFail(r, fatal) ==
    /\ pc[r] = "downloading"
    /\ LET calls == <<"fetch.fail">> \o (IF fatal THEN <<UnhandledExit>> ELSE <<>>) IN
         /\ trace' = [trace EXCEPT ![r] = @ \o calls]
         /\ pc' = [pc EXCEPT ![r] = PcAfter(calls, "rejected")]
         /\ exitCode' = [exitCode EXCEPT ![r] = ExitCodeAfter(calls)]
         /\ timer' = [timer EXCEPT ![r] = @ /\ ExitCodeAfter(calls) = NoExit]
    /\ UNCHANGED <<version, platform, skipInit, engines, engineDir, mozbuild,
                   metadata, initProgress, initProgressText, fetchUrl, wsAtInvoke>>
    /\ UNCHANGED <<bvars, pvars>>

----------------------------------------------------------------------------
(* onData *)

RECURSIVE SplitOn(_, _)
\* String.prototype.split for a one-character separator
SplitOn(s, c) ==
    IF ~Includes(s, c) THEN <<s>>
    ELSE LET i == IndexFrom(s, c, 1) IN
         <<SubSeq(s, 1, i - 1)>> \o SplitOn(SubSeq(s, i + 1, Len(s)), c)

RECURSIVE Join(_, _)
\* Array.prototype.join for a one-character separator
Join(parts, c) ==
    IF parts = <<>> THEN <<>>
    ELSE IF Len(parts) = 1 THEN parts[1]
    ELSE parts[1] \o <<c>> \o Join(Tail(parts), c)

\* line.trim().length !== 0
NotBlank(line) == \E i \in 1..Len(line) : line[i] # " "

\* t = line.split(' '); t.shift(); t.join(' ')
ShiftToken(line) == Join(Tail(SplitOn(line, " ")), " ")

RECURSIVE OnDataLines(_, _)
\* the forEach over the lines of one chunk
OnDataLines(text, lines) ==
    IF lines = <<>> THEN text
    ELSE OnDataLines(IF NotBlank(Head(lines)) THEN ShiftToken(Head(lines)) ELSE text,
                     Tail(lines))

\* the value of initProgressText after onData(data)
OnData(text, data) == OnDataLines(text, SplitOn(data, "\n"))

----------------------------------------------------------------------------
(* unpackFirefoxSource *)

InitialisingText == <<"Initialising...">>
UnpackingText == <<"Unpacking Firefox...">>

\* the ora handle as created at module load
InitialProgress == [live |-> TRUE, spinning |-> FALSE,
                    text |-> InitialisingText, prefixText |-> <<"00:00:00">>]

\* the calls of the promise executor, in order
UnpackCalls == <<"spinner.start", "rmdir:engine", "ensureDir:engine", "spawn:tar">>

\* the fetch resolves: downloadFirefoxSource returns the file name and
\* download() goes on into unpackFirefoxSource, up to the spawn of tar
FetchDone(r) ==
    /\ pc[r] = "downloading"
    /\ engines' = Dir(EnsureDirSync(engines).files \cup {SourceFileName(version)})
    /\ trace' = [trace EXCEPT ![r] = @ \o <<"fetch.done">> \o UnpackCalls]
    /\ initProgress' = [initProgress EXCEPT ![r].spinning = TRUE]
    /\ initProgressText' = [initProgressText EXCEPT ![r] = UnpackingText]
    /\ engineDir' = EnsureDirSync(RmdirSync(engineDir))
    /\ pc' = [pc EXCEPT ![r] = "unpacking"]
    /\ UNCHANGED <<version, platform, skipInit, mozbuild, metadata, exitCode,
                   timer, fetchUrl, wsAtInvoke>>
    /\ UNCHANGED <<bvars, pvars>>

\* tar writes a chunk to its stdout (it has extracted something)
TarData(r, data) ==
    /\ pc[r] = "unpacking"
    /\ initProgressText' = [initProgressText EXCEPT ![r] = OnData(@, data)]
    /\ engineDir' = Dir(EnsureDirSync(engineDir).files \cup {"src"})
    /\ UNCHANGED <<version, platform, skipInit, engines, mozbuild, metadata, pc,
                   exitCode, timer, initProgress, fetchUrl, trace, wsAtInvoke>>
    /\ UNCHANGED <<bvars, pvars>>

\* a chunk of tar's stdout is delivered after the 'exit' event: the streams
\* of a child process may still be open when 'exit' is emitted
TarLateData(r, data) ==
    /\ Has(trace[r], "exit:tar")
    /\ pc[r] \in {"artifacts", "initializing", "metadata", "returned"}
    /\ initProgressText' = [initProgressText EXCEPT ![r] = OnData(@, data)]
    /\ UNCHANGED <<version, platform, skipInit, engines, engineDir, mozbuild,
                   metadata, pc, exitCode, timer, initProgress, fetchUrl, trace,
                   wsAtInvoke>>
    /\ UNCHANGED <<bvars, pvars>>

----------------------------------------------------------------------------
(* download: after unpackFirefoxSource has resolved *)

\* variant: the platform is not looked at
ArtifactCalls_AnyPlatform(plat, moz) ==
    IF moz THEN <<"log.info:mozbuild-exists">>
    ELSE <<"log.info:mozbuild-missing", "downloadArtifacts.start">>

\* lines 65-72: the toolchain cache check
ArtifactCalls(plat, moz) ==
    IF plat = "win32"
    THEN IF moz THEN <<"log.info:mozbuild-exists">>
         ELSE <<"log.info:mozbuild-missing", "downloadArtifacts.start">>
    ELSE <<>>

\* variant: the work of the exit handler is done right after the spawn
InitCalls_MetadataAtSpawn(skip) ==
    IF skip THEN <<"log.info:skip-init", "return">>
    ELSE <<"spawn:init", "writeMetadata.start", "return">>

\* variant: CI_SKIP_INIT is not looked at
InitCalls_IgnoreSkip(skip) == <<"spawn:init", "return">>

\* lines 74-83: the skip check and the spawn of the initializer
InitCalls(skip) ==
    IF skip THEN <<"log.info:skip-init", "return">> ELSE <<"spawn:init", "return">>

\* where download() is once InitCalls have run
PcAfterInit(skip) == IF skip THEN "returned" ELSE "initializing"

\* the exit statuses a child process may end with
ExitStatuses == {"0", "1"}

\* the status the 'exit' event of a child process carries; no handler reads it
ExitStatus(proc, status) == proc \o ".status:" \o status

\* the 'exit' event of tar and the calls of its handler, in order
TarExitCalls(status) == <<"exit:tar", ExitStatus("tar", status), "spinner.stop">>

\* tar exits: the handler tears the display down and resolves; download()
\* continues up to its next await or its return
TarExit(r, status) ==
    /\ pc[r] = "unpacking"
    /\ initProgressText' = [initProgressText EXCEPT ![r] = <<>>]
    /\ initProgress' = [initProgress EXCEPT ![r] = Null]
    /\ LET art == ArtifactCalls(platform, mozbuild) IN
       IF Has(art, "downloadArtifacts.start")
       THEN /\ trace' = [trace EXCEPT ![r] = @ \o TarExitCalls(status) \o art]
            /\ pc' = [pc EXCEPT ![r] = "artifacts"]
       ELSE /\ trace' = [trace EXCEPT ![r] = @ \o TarExitCalls(status) \o art \o InitCalls(skipInit[r])]
            /\ pc' = [pc EXCEPT ![r] = PcAfterInit(skipInit[r])]
    /\ UNCHANGED <<version, platform, skipInit, engines, engineDir, mozbuild,
                   metadata, exitCode, timer, fetchUrl, wsAtInvoke>>
    /\ UNCHANGED <<bvars, pvars>>

\* downloadArtifacts resolves (it has filled ~/.mozbuild)
ArtifactsDone(r) ==
    /\ pc[r] = "artifacts"
    /\ mozbuild' = TRUE
    /\ trace' = [trace EXCEPT ![r] = @ \o <<"downloadArtifacts.done">> \o InitCalls(skipInit[r])]
    /\ pc' = [pc EXCEPT ![r] = PcAfterInit(skipInit[r])]
    /\ UNCHANGED <<version, platform, skipInit, engines, engineDir, metadata,
                   exitCode, timer, initProgress, initProgressText, fetchUrl,
                   wsAtInvoke>>
    /\ UNCHANGED <<bvars, pvars>>

\* variant: the handler gives up with exit code 1 when the status is not 0
InitExitCalls_CheckStatus(status) ==
    <<"exit:init", ExitStatus("init", status)>>
    \o (IF status = "0" THEN <<"log.success", "console.log", "writeMetadata.start">>
        ELSE <<"process.exit(1)">>)

\* lines 83-87: the 'exit' event of the initializer and the calls of its
\* handler up to its await
InitExitCalls(status) ==
    <<"exit:init", ExitStatus("init", status),
      "log.success", "console.log", "writeMetadata.start">>

InitExit(r, status) ==
    /\ pc[r] = "initializing"
    /\ LET calls == InitExitCalls(status) IN
         /\ trace' = [trace EXCEPT ![r] = @ \o calls]
         /\ pc' = [pc EXCEPT ![r] = PcAfter(calls, "metadata")]
         /\ exitCode' = [exitCode EXCEPT ![r] = ExitCodeAfter(calls)]
         /\ timer' = [timer EXCEPT ![r] = @ /\ ExitCodeAfter(calls) = NoExit]
    /\ UNCHANGED <<version, platform, skipInit, engines, engineDir, mozbuild,
                   metadata, initProgress, initProgressText, fetchUrl, wsAtInvoke>>
    /\ UNCHANGED <<bvars, pvars>>

\* the calls of the exit handler after writeMetadata has resolved
CleanupCalls == <<"writeMetadata.done", "removeSync:archive", "process.exit(0)">>

MetadataDone(r) ==
    /\ pc[r] = "metadata"
    /\ metadata' = TRUE
    /\ engines' = [engines EXCEPT !.files = @ \ {SourceFileName(version)}]
    /\ trace' = [trace EXCEPT ![r] = @ \o CleanupCalls]
    /\ pc' = [pc EXCEPT ![r] = PcAfter(CleanupCalls, "returned")]
    /\ exitCode' = [exitCode EXCEPT ![r] = ExitCodeAfter(CleanupCalls)]
    /\ timer' = [timer EXCEPT ![r] = @ /\ ExitCodeAfter(CleanupCalls) = NoExit]
    /\ UNCHANGED <<version, platform, skipInit, engineDir, mozbuild,
                   initProgress, initProgressText, fetchUrl, wsAtInvoke>>
    /\ UNCHANGED <<bvars, pvars>>

----------------------------------------------------------------------------
(* the interval callback *)

\* the points where a run has given control back to the event loop
AwaitPoints == {"downloading", "unpacking", "artifacts", "initializing",
                "metadata", "returned", "rejected"}

\* variant: the callback does not test the handle
TickCallback_NoGuard(progress, text) ==
    [progress EXCEPT !.text = text, !.prefixText = <<"getDiff">>]

\* lines 44-47
TickCallback(progress, text) ==
    IF progress.live
    THEN [progress EXCEPT !.text = text, !.prefixText = <<"getDiff">>]
    ELSE progress

Tick(r) ==
    /\ timer[r]
    /\ pc[r] \in AwaitPoints
    /\ initProgress' = [initProgress EXCEPT ![r] = TickCallback(@, initProgressText[r])]
    /\ UNCHANGED <<version, platform, skipInit, engines, engineDir, mozbuild,
                   metadata, pc, exitCode, timer, initProgressText, fetchUrl,
                   trace, wsAtInvoke>>
    /\ UNCHANGED <<bvars, pvars>>

----------------------------------------------------------------------------
(* Download State of section 3 of the specification, read off a run *)

DownloadState(r) ==
    CASE pc[r] = "not-started" -> "not-started"
      [] pc[r] = "downloading" -> "downloading"
      [] pc[r] = "unpacking" -> "unpacking"
      [] pc[r] = "artifacts" -> "unpacked"
      [] pc[r] \in {"initializing", "metadata"} -> "initializing"
      [] pc[r] = "returned" -> "complete"
      [] pc[r] = "exited" /\ exitCode[r] = {0} -> "complete"
      [] pc[r] = "exited" /\ exitCode[r] # {0} -> "failed"
      [] pc[r] = "rejected" -> "failed"

----------------------------------------------------------------------------
(* Collaborators of the configuration merge that live outside the source files *)

NoFile == [exists |-> FALSE, content |-> <<>>]
File(content) == [exists |-> TRUE, content |-> content]

\* BUILD_TARGETS of ../constants
BUILD_TARGETS == {"linux", "windows", "macos"}

\* the placeholder of a key
Placeholder(key) == "{{" \o key \o "}}"

RECURSIVE StringTemplate(_, _)
\* stringTemplate of ../utils: every placeholder whose key the options hold is
\* replaced by its value, every other token is kept; a value is not scanned again
StringTemplate(template, variables) ==
    IF template = <<>> THEN <<>>
    ELSE (IF \E k \in DOMAIN variables : Head(template) = Placeholder(k)
          THEN variables[CHOOSE k \in DOMAIN variables : Head(template) = Placeholder(k)]
          ELSE <<Head(template)>>)
         \o StringTemplate(Tail(template), variables)

----------------------------------------------------------------------------
(* applyConfig *)

\* const platform (lines 215-219); a host the table lacks maps to undefined
PlatformName(p) ==
    CASE p = "win32" -> "windows"
      [] p = "darwin" -> "macos"
      [] p = "linux" -> "linux"
      [] OTHER -> "undefined"

Whitespace == {" ", "\n"}

RECURSIVE TrimStart(_)
TrimStart(s) == IF s # <<>> /\ Head(s) \in Whitespace THEN TrimStart(Tail(s)) ELSE s

RECURSIVE TrimEnd(_)
TrimEnd(s) == IF s # <<>> /\ Last(s) \in Whitespace
              THEN TrimEnd(SubSeq(s, 1, Len(s) - 1)) ELSE s

\* String.prototype.trim
Trim(s) == TrimEnd(TrimStart(s))

\* lines 243-252
TemplateOptions(resolved, melon) ==
    [name |-> <<"Dot">>,
     vendor |-> <<"Dot">>,
     appId |-> <<"dot.app">>,
     brandingDir |-> IF melon THEN <<"branding/melon">> ELSE <<"branding/unofficial">>,
     binName |-> <<"dot">>,
     changeset |-> resolved]

Banner == <<"# This file is automatically generated. You should only modify this if you know what you are doing!">>

BlankLine == <<"\n", "\n">>

InternalConfig == <<"# Internally defined by melon">>

\* the file applyConfig reads for the OS fragment (lines 260-266)
OsConfigFile(a, plain, i686) == IF a = "i686" THEN i686 ELSE plain

\* the text applyConfig renders as the user override (lines 273-277)
CustomText(custom) == IF custom.exists THEN custom.content ELSE <<>>

\* variant: the user override is put before the OS fragment
MergedConfig_CustomFirst(commonConfig, osConfig, customConfig, internalConfig) ==
    Banner \o BlankLine
    \o commonConfig \o BlankLine
    \o customConfig \o BlankLine
    \o osConfig \o BlankLine
    \o internalConfig

\* lines 281-289
MergedConfig(commonConfig, osConfig, customConfig, internalConfig) ==
    Banner \o BlankLine
    \o commonConfig \o BlankLine
    \o osConfig \o BlankLine
    \o customConfig \o BlankLine
    \o internalConfig

\* the merged text of one applyConfig
ApplyConfigText(resolved, melon, common, os, custom) ==
    LET templateOptions == TemplateOptions(resolved, melon) IN
    MergedConfig(StringTemplate(common.content, templateOptions),
                 StringTemplate(os.content, templateOptions),
                 StringTemplate(CustomText(custom), templateOptions),
                 InternalConfig)

Markers == <<"mk_add_options ", "ac_add_options ", "export ">>

\* ln.startsWith('mk') || ln.startsWith('ac') || ln.startsWith('export')
IsOptionLine(ln) == ln # <<>> /\ \E i \in 1..Len(Markers) : ln[1] = Markers[i]

\* String.prototype.replace with a pattern that has no g flag
ReplaceFirst(ln, tok) ==
    IF Has(ln, tok)
    THEN SubSeq(ln, 1, Pos(ln, tok) - 1) \o SubSeq(ln, Pos(ln, tok) + 1, Len(ln))
    ELSE ln

\* lines 298-301
EchoLine(ln) ==
    <<"\t">> \o ReplaceFirst(ReplaceFirst(ReplaceFirst(ln, Markers[1]), Markers[2]), Markers[3])

Info(msg) == [level |-> "info", msg |-> msg]
Warning(msg) == [level |-> "warning", msg |-> msg]
Debug(msg) == [level |-> "debug", msg |-> msg]

RECURSIVE EchoLines(_)
\* lines 295-303
EchoLines(lines) ==
    IF lines = <<>> THEN <<>>
    ELSE (IF IsOptionLine(Head(lines)) THEN <<Info(EchoLine(Head(lines)))>> ELSE <<>>)
         \o EchoLines(Tail(lines))

\* variant: the command to run is not printed
GitWarnings_Three ==
    << Warning(<<"Melon expects that you are building your browser with git as your version control">>),
       Warning(<<"If you are using some other version control system, please migrate to git">>),
       Warning(<<"Otherwise, you can setup git in this folder by running:">>) >>

\* lines 231-238
GitWarnings ==
    << Warning(<<"Melon expects that you are building your browser with git as your version control">>),
       Warning(<<"If you are using some other version control system, please migrate to git">>),
       Warning(<<"Otherwise, you can setup git in this folder by running:">>),
       Warning(<<"   |git init|">>) >>

\* variant: the catch block swallows the error
Rethrows_Swallowed == FALSE

\* line 240: the catch block ends by throwing the error again
Rethrows == TRUE

\* lines 313-317
BuildOptions(fast) == IF fast THEN <<"build", "faster">> ELSE <<"build">>

\* lines 307-322: what genericBuild logs before it reads ENGINE_DIR/mach
GenericBuildLog(fast) ==
    << Info(<<"Building for ...">>),
       Warning(<<"If you get any dependency errors, try running |bootstrap|.">>),
       Info(Join([i \in 1..Len(BuildOptions(fast)) |-> <<BuildOptions(fast)[i]>>], " ")),
       Debug(<<"Running with build options">>),
       Debug(<<"Mach exists">>) >>

----------------------------------------------------------------------------
(* build *)

\* what the build driver is started with, once per dispatch
DispatchCall(fast) == Info(<<"dispatch ./mach">> \o BuildOptions(fast))

\* build() is called; it goes up to the await of patchCheck, or returns at
\* once on a host that is no build target
Build(opts) ==
    /\ bpc \in {"idle", "done", "rejected"}
    /\ builds < MaxBuilds
    /\ builds' = builds + 1
    /\ options' = opts
    /\ bout' = <<>>
    /\ machInvoked' = FALSE
    /\ fileAtStart' = mozconfigFile
    /\ written' = 0
    /\ changeset' = <<>>
    /\ bpc' = IF PlatformName(platform) \in BUILD_TARGETS THEN "patchCheck" ELSE "done"
    /\ UNCHANGED <<commonFile, osFile, osFileI686, customFile, machExists,
                   brandingMelon, mozconfigFile>>
    /\ UNCHANGED <<dvars, pvars>>

\* patchCheck resolves; applyConfig starts and awaits git rev-parse HEAD
PatchCheckDone ==
    /\ bpc = "patchCheck"
    /\ bout' = bout \o <<Info(<<"Applying mozconfig...">>)>>
    /\ bpc' = "git"
    /\ UNCHANGED <<options, commonFile, osFile, osFileI686, customFile, machExists,
                   brandingMelon, mozconfigFile, changeset, builds, machInvoked,
                   fileAtStart, written>>
    /\ UNCHANGED <<dvars, pvars>>

\* variant: the merged text is added to the end of what the file holds
WriteFileSync_Append(file, data) == File(file.content \o data)

\* line 291: writeFileSync creates the file or replaces all it holds
WriteFileSync(file, data) == File(data)

\* applyConfig from line 243 on with the changeset in hand, then build() and
\* genericBuild up to the await of dispatch; logged is the log so far
ApplyAndBuild(resolved, logged) ==
    LET os == OsConfigFile(options.arch, osFile, osFileI686)
        merged == ApplyConfigText(resolved, brandingMelon, commonFile, os, customFile)
    IN
    /\ changeset' = resolved
    /\ IF ~commonFile.exists \/ ~os.exists
       THEN \* readFileSync throws
            /\ bpc' = "rejected"
            /\ bout' = logged
            /\ UNCHANGED <<mozconfigFile, machInvoked, written>>
       ELSE /\ mozconfigFile' = WriteFileSync(mozconfigFile, merged)
            /\ written' = written + 1
            /\ LET log == logged
                          \o <<Info(<<"Config for this build:">>)>>
                          \o EchoLines(SplitOn(merged, "\n"))
                          \o <<Info(<<"Starting build...">>)>>
                          \o GenericBuildLog(options.ui)
               IN IF machExists
                  THEN /\ bout' = log \o <<Debug(<<"Mach contents">>), DispatchCall(options.ui)>>
                       /\ machInvoked' = TRUE
                       /\ bpc' = "mach"
                  ELSE \* readFileSync(join(ENGINE_DIR, 'mach')) throws
                       /\ bout' = log
                       /\ machInvoked' = FALSE
                       /\ bpc' = "rejected"

\* git rev-parse HEAD succeeds
GitDone(stdout) ==
    /\ bpc = "git"
    /\ ApplyAndBuild(Trim(stdout), bout)
    /\ UNCHANGED <<options, commonFile, osFile, osFileI686, customFile, machExists,
                   brandingMelon, builds, fileAtStart>>
    /\ UNCHANGED <<dvars, pvars>>

\* git rev-parse HEAD fails: the catch block of lines 230-241
GitFail ==
    /\ bpc = "git"
    /\ IF Rethrows
       THEN /\ bout' = bout \o GitWarnings
            /\ bpc' = "rejected"
            /\ UNCHANGED <<mozconfigFile, changeset, machInvoked, written>>
       ELSE \* without the throw applyConfig goes on, its changeset undefined
            ApplyAndBuild(<<"undefined">>, bout \o GitWarnings)
    /\ UNCHANGED <<options, commonFile, osFile, osFileI686, customFile, machExists,
                   brandingMelon, builds, fileAtStart>>
    /\ UNCHANGED <<dvars, pvars>>

\* the build driver finishes; success() reports the build time
MachDone ==
    /\ bpc = "mach"
    /\ bout' = bout \o <<Info(<<"Total build time">>)>>
    /\ bpc' = "done"
    /\ UNCHANGED <<options, commonFile, osFile, osFileI686, customFile, machExists,
                   brandingMelon, mozconfigFile, changeset, builds, machInvoked,
                   fileAtStart, written>>
    /\ UNCHANGED <<dvars, pvars>>

----------------------------------------------------------------------------
(* Bounds and input sets of the build *)

BuildPlatforms == {"linux", "win32", "darwin", "freebsd"}

Archs == {"x86_64", "i686"}

CommonFiles == { File(<<"ac_add_options ", "--with-app-name=", "{{binName}}", "\n",
                        "export ", "MOZ_SOURCE_CHANGESET=", "{{changeset}}">>),
                 File(<<"# common">>) }

OsFiles == { File(<<"mk_add_options ", "MOZ_OBJDIR=obj", "\n", "# ", "{{missing}}">>),
             File(<<>>) }

OsFilesI686 == { File(<<"ac_add_options ", "--target=i686">>), NoFile }

CustomFiles == { NoFile,
                 File(<<"ac_add_options ", "--with-branding=", "{{brandingDir}}">>),
                 File(<<"\n", "\n", "# mine">>) }

\* what ENGINE_DIR/mozconfig may hold before the first build
PriorFiles == { NoFile, File(<<"# left over">>) }

\* what git rev-parse HEAD may print
GitStdouts == { <<"c", "0", "f", "\n">>, <<" ", "d", "1">> }

----------------------------------------------------------------------------
(* internalMozconfg: the text is a sequence of lines, a line a sequence of tokens *)

\* an ac_add_options line
Option(flag) == <<"ac_add_options ", flag>>

\* lines 3-4
OtherBuildModes ==
    << <<"# You can change to other build modes by running:">>,
       <<"#   $ surfer set buildMode [dev|debug|release]">> >>

\* getPlatformOptimiseFlags, lines 62-81
GetPlatformOptimiseFlags(p) ==
    CASE p = "linux" ->
            Option("--enable-optimize=") \o <<"\"-march=x86-64 -msse3 -mtune=haswell -O3 -w\"">>
      [] p = "darwin" ->
            Option("--enable-optimize=") \o <<"\"-O3 -march=nehalem -mtune=haswell -w\"">>
      [] p = "win32" ->
            Option("--enable-optimize=")
            \o <<"\"-clang:-march=x86-64 -clang:-msse3 -clang:-mtune=haswell -clang:-O3 -w\"">>
      [] OTHER -> <<"# Unknown platform ", p>>

\* line 6: evaluated once, when the module is loaded
PlatformOptimize == GetPlatformOptimiseFlags(surferPlatform)

\* lines 17-19
DevOptions ==
    << <<"# Development build settings">> >> \o OtherBuildModes
    \o << Option("--disable-debug") >>

\* variant: the debug settings leave optimization on
DebugOptions_Optimized ==
    << <<"# Debug build settings">> >> \o OtherBuildModes
    \o << Option("--enable-debug"), Option("--enable-optimize") >>

\* lines 23-26
DebugOptions ==
    << <<"# Debug build settings">> >> \o OtherBuildModes
    \o << Option("--enable-debug"), Option("--disable-optimize") >>

\* lines 31-35
ReleaseOptions ==
    << <<"# Release build settings">>,
       Option("--disable-debug"),
       Option("--enable-optimize"),
       Option("--enable-rust-simd"),
       PlatformOptimize \o <<" # Taken from waterfox">> >>

\* variant: a mode the switch does not know gets the development settings
BuildOptionsOf_DevByDefault(mode) ==
    CASE mode = "debug" -> DebugOptions
      [] mode = "release" -> ReleaseOptions
      [] OTHER -> DevOptions

\* lines 12-38: buildOptions
BuildOptionsOf(mode) ==
    CASE mode = "dev" -> DevOptions
      [] mode = "debug" -> DebugOptions
      [] mode = "release" -> ReleaseOptions
      [] OTHER -> << <<"# Unknown build mode ", mode>> >>

\* lines 40-44: what the returned text starts with
FragmentHeader ==
    << <<>>,
       <<"# =====================">>,
       <<"# Internal surfer config">>,
       <<"# =====================">>,
       <<>> >>

\* lines 56-58: config.updateHostname || 'localhost:7648 # This should not resolve'
UpdateHost == IF updateHostname # <<>> THEN updateHostname
              ELSE <<"localhost:7648 # This should not resolve">>

\* lines 46-59: what the returned text ends with, whatever the mode
FragmentTail(brandName) ==
    << Option("--disable-geckodriver"),
       Option("--disable-profiling"),
       Option("--disable-tests"),
       <<>>,
       <<"# Custom branding">>,
       Option("--with-branding=") \o <<"browser/branding/">> \o brandName,
       <<>>,
       <<"# Config for updates">>,
       Option("--enable-unverified-updates"),
       Option("--enable-update-channel=") \o brandName,
       <<"export ", "MOZ_APPUPDATE_HOST=">> \o UpdateHost,
       <<>> >>

\* internalMozconfg, lines 8-60
InternalMozconfg(brandName, mode) ==
    FragmentHeader \o BuildOptionsOf(mode) \o FragmentTail(brandName)

Brands == { <<"melon">>, <<"my-", "browser">>, <<>> }

BuildModes == { "dev", "debug", "release", "bogus", "" }

SurferPlatforms == { "linux", "darwin", "win32", "freebsd", "undefined" }

UpdateHostnames == { <<>>, <<"updates.example.org">> }

\* a caller asks for the internal fragment
InternalMozconfgCall(brandName, mode) ==
    /\ brand' = brandName
    /\ buildMode' = mode
    /\ fragment' = InternalMozconfg(brandName, mode)
    /\ UNCHANGED <<surferPlatform, updateHostname>>
    /\ UNCHANGED <<dvars, bvars, ovars>>

----------------------------------------------------------------------------
(* onData on the stdout of one tar process *)

\* what a 'data' event may carry: a chunk ends where the pipe was read, which
\* need not be the end of a line
OutputChunks == { <<"x", " ", "f">>, <<"i", "\n">>, <<"\n">>, <<" ", "\n">>,
                 <<"y", " ", "g", "\n", "z", " ", "h">> }

\* lines 139 and 103-113: stdout delivers a chunk and onData handles it
OnDataCall(data) ==
    /\ chunks < MaxChunks
    /\ chunks' = chunks + 1
    /\ tarOutput' = tarOutput \o data
    /\ progressText' = OnData(progressText, data)
    /\ UNCHANGED <<dvars, bvars, mvars>>

----------------------------------------------------------------------------
(* Specifications *)

\* internalMozconfg has not been called
MozconfigIdle ==
    /\ surferPlatform = "undefined"
    /\ updateHostname = <<>>
    /\ brand = <<>>
    /\ buildMode = "none"
    /\ fragment = <<>>
    /\ tarOutput = <<>>
    /\ chunks = 0
    /\ progressText = InitialisingText

DownloadIdle ==
    /\ version = <<>>
    /\ skipInit = [r \in Runs |-> FALSE]
    /\ engines = NoDir
    /\ engineDir = Dir({"old"})
    /\ mozbuild = FALSE
    /\ metadata = FALSE
    /\ pc = [r \in Runs |-> "not-started"]
    /\ exitCode = [r \in Runs |-> NoExit]
    /\ timer = [r \in Runs |-> FALSE]
    /\ initProgress = [r \in Runs |-> InitialProgress]
    /\ initProgressText = [r \in Runs |-> InitialisingText]
    /\ fetchUrl = [r \in Runs |-> <<>>]
    /\ trace = [r \in Runs |-> <<>>]
    /\ wsAtInvoke = [r \in Runs |-> "unset"]

BuildIdle ==
    /\ options = [arch |-> "x86_64", ui |-> FALSE]
    /\ commonFile = NoFile
    /\ osFile = NoFile
    /\ osFileI686 = NoFile
    /\ customFile = NoFile
    /\ machExists = FALSE
    /\ brandingMelon = FALSE
    /\ mozconfigFile = NoFile
    /\ changeset = <<>>
    /\ bpc = "idle"
    /\ bout = <<>>
    /\ builds = 0
    /\ machInvoked = FALSE
    /\ fileAtStart = NoFile
    /\ written = 0

\* the acquisition flow: two download invocations on one project root
Init ==
    /\ version \in Versions
    /\ platform \in Platforms
    /\ skipInit \in {[r \in Runs |-> FALSE], [r \in Runs |-> TRUE],
                    [r \in Runs |-> r = "r1"]}
    /\ engines \in {NoDir, Dir({VersionDir(<<"9", "1">>)})}
    /\ engineDir \in {NoDir, Dir({}), Dir({"old"})}
    \* ~/.mozbuild is looked at on win32 only
    /\ mozbuild \in IF platform = "win32" THEN BOOLEAN ELSE {FALSE}
    /\ metadata = FALSE
    /\ pc = [r \in Runs |-> "not-started"]
    /\ exitCode = [r \in Runs |-> NoExit]
    /\ timer = [r \in Runs |-> FALSE]
    /\ initProgress = [r \in Runs |-> InitialProgress]
    /\ initProgressText = [r \in Runs |-> InitialisingText]
    /\ fetchUrl = [r \in Runs |-> <<>>]
    /\ trace = [r \in Runs |-> <<>>]
    /\ wsAtInvoke = [r \in Runs |-> "unset"]
    /\ BuildIdle
    /\ MozconfigIdle

Next ==
    \E r \in Runs :
        \/ Download(r)
        \/ FetchDone(r)
        \/ \E fatal \in BOOLEAN : FetchFail(r, fatal)
        \/ \E data \in Chunks : TarData(r, data)
        \/ \E data \in Chunks : TarLateData(r, data)
        \/ \E status \in ExitStatuses : TarExit(r, status)
        \/ ArtifactsDone(r)
        \/ \E status \in ExitStatuses : InitExit(r, status)
        \/ MetadataDone(r)
        \/ Tick(r)

Spec == Init /\ [][Next]_vars

\* the configuration merge: a sequence of build invocations
BuildInit ==
    /\ platform \in BuildPlatforms
    /\ commonFile \in CommonFiles
    /\ osFile \in OsFiles
    /\ osFileI686 \in OsFilesI686
    /\ customFile \in CustomFiles
    /\ machExists \in BOOLEAN
    /\ brandingMelon \in BOOLEAN
    /\ mozconfigFile \in PriorFiles
    /\ options = [arch |-> "x86_64", ui |-> FALSE]
    /\ changeset = <<>>
    /\ bpc = "idle"
    /\ bout = <<>>
    /\ builds = 0
    /\ machInvoked = FALSE
    /\ fileAtStart = mozconfigFile
    /\ written = 0
    /\ DownloadIdle
    /\ MozconfigIdle

BuildNext ==
    \/ \E a \in Archs, u \in BOOLEAN : Build([arch |-> a, ui |-> u])
    \/ PatchCheckDone
    \/ \E stdout \in GitStdouts : GitDone(stdout)
    \/ GitFail
    \/ MachDone

BuildSpec == BuildInit /\ [][BuildNext]_vars

\* the settings generator: mozconfig.ts is loaded, then internalMozconfg is
\* called any number of times
MozconfigInit ==
    /\ surferPlatform \in SurferPlatforms
    /\ updateHostname \in UpdateHostnames
    /\ brand = <<>>
    /\ buildMode = "none"
    /\ fragment = <<>>
    /\ tarOutput = <<>>
    /\ chunks = 0
    /\ progressText = InitialisingText
    /\ platform = "linux"
    /\ DownloadIdle
    /\ BuildIdle

MozconfigNext ==
    \E brandName \in Brands, mode \in BuildModes : InternalMozconfgCall(brandName, mode)

MozconfigSpec == MozconfigInit /\ [][MozconfigNext]_vars

\* tar has been spawned by unpackFirefoxSource (line 124 has set the Progress
\* Text) and writes to its stdout
OnDataInit ==
    /\ tarOutput = <<>>
    /\ chunks = 0
    /\ progressText = UnpackingText
    /\ platform = "linux"
    /\ surferPlatform = "undefined"
    /\ updateHostname = <<>>
    /\ brand = <<>>
    /\ buildMode = "none"
    /\ fragment = <<>>
    /\ DownloadIdle
    /\ BuildIdle

OnDataNext == \E data \in OutputChunks : OnDataCall(data)

OnDataSpec == OnDataInit /\ [][OnDataNext]_vars

----------------------------------------------------------------------------
(* Properties of the acquisition flow *)

\* b occurs in s only after a has occurred
Before(s, a, b) == Has(s, b) => (Has(s, a) /\ Pos(s, a) < Pos(s, b))

\* no stage of run r is pending: download() has returned, thrown or exited
Quiescent(r) == pc[r] \in {"returned", "rejected", "exited"}

\* C1: a run invoked while the workspace directory of the version (stripped
\* of its pre-release suffix) or the engine workspace exists never starts the
\* fetch and never reaches the downloading state.
C1_NoFetchOverWorkspace ==
    \A r \in Runs :
        wsAtInvoke[r] = "present" =>
            /\ ~Has(trace[r], "fetch.start")
            /\ DownloadState(r) \notin {"downloading", "unpacking", "unpacked",
                                        "initializing", "complete"}

\* C2: in every run the stages are strictly ordered: tar is spawned only
\* after the fetch has completed, the initializer only after tar's exit has
\* been observed, and the metadata is written and the archive removed only
\* after the initializer's exit has been observed.
C2_StagesOrdered ==
    /\ \A r \in Runs :
          /\ Before(trace[r], "fetch.start", "fetch.done")
          /\ Before(trace[r], "fetch.done", "spawn:tar")
          /\ Before(trace[r], "spawn:tar", "exit:tar")
          /\ Before(trace[r], "exit:tar", "spawn:init")
          /\ Before(trace[r], "spawn:init", "exit:init")
          /\ Before(trace[r], "exit:init", "writeMetadata.start")
          /\ Before(trace[r], "exit:init", "writeMetadata.done")
          /\ Before(trace[r], "exit:init", "removeSync:archive")
    /\ metadata => \E r \in Runs : Has(trace[r], "exit:init")

C2_Witness ==
    \E r \in Runs :
        /\ Has(trace[r], "removeSync:archive")
        /\ metadata
        /\ SourceFileName(version) \notin engines.files

\* the calls that resolve a URL, fetch, touch a directory or spawn a process
EffectCalls == {"resolveUrl", "fetch.start", "ensureDir:engines", "rmdir:engine",
                "ensureDir:engine", "removeSync:archive", "spawn:tar", "spawn:init",
                "downloadArtifacts.start", "writeMetadata.start"}

\* C3: with no version configured, an invoked run has printed the
\* diagnostic and exited with code 1, has resolved no URL, made no fetch,
\* touched no directory and spawned nothing; the file system stays as it was.
C3_NoVersionIsFatal ==
    /\ [](\A r \in Runs :
            (VersionMissing(version) /\ pc[r] # "not-started") =>
                /\ pc[r] = "exited"
                /\ exitCode[r] = {1}
                /\ Has(trace[r], "log.error:no-version")
                /\ \A i \in 1..Len(trace[r]) : trace[r][i] \notin EffectCalls
                /\ fetchUrl[r] = <<>>)
    /\ [][VersionMissing(version) =>
            UNCHANGED <<engines, engineDir, mozbuild, metadata>>]_vars

C3_Witness ==
    \E r \in Runs :
        /\ VersionMissing(version)
        /\ pc[r] = "exited"
        /\ exitCode[r] = {1}

\* C4: a run with a version containing "b", invoked with no workspace
\* present, emits the beta advisory once, as a warning, then starts the
\* fetch; no error is logged and the run fails only if the fetch itself fails.
C4_BetaAdvisoryThenFetch ==
    \A r \in Runs :
        (Includes(version, "b") /\ wsAtInvoke[r] = "absent") =>
            /\ Count(trace[r], "log.warning:beta") = 1
            /\ Before(trace[r], "log.warning:beta", "fetch.start")
            /\ Has(trace[r], "fetch.start")
            /\ fetchUrl[r] = SourceUrl(version)
            /\ \A i \in 1..Len(trace[r]) : trace[r][i] \notin ErrorCalls
            /\ DownloadState(r) = "failed" => Has(trace[r], "fetch.fail")

C4_Witness ==
    \E r \in Runs :
        /\ version = <<"9", "1", "b", "2">>
        /\ wsAtInvoke[r] = "absent"
        /\ Has(trace[r], "fetch.done")

\* C5: with CI_SKIP_INIT set the initializer is never spawned and the run
\* that skips ends with download() returned, not failed and with no exit
\* code; without it the initializer is spawned exactly once when download()
\* gets past the artifact step that follows unpack, and never twice.
C5_SkipInit ==
    \A r \in Runs :
        /\ Count(trace[r], "spawn:init") <= 1
        /\ skipInit[r] =>
              /\ ~Has(trace[r], "spawn:init")
              /\ Has(trace[r], "log.info:skip-init") =>
                    /\ pc[r] = "returned"
                    /\ DownloadState(r) # "failed"
                    /\ exitCode[r] = NoExit
        /\ (~skipInit[r] /\ Has(trace[r], "exit:tar")) =>
              IF pc[r] = "artifacts"
              THEN ~Has(trace[r], "spawn:init")
              ELSE Count(trace[r], "spawn:init") = 1

C5_Witness ==
    /\ skipInit["r1"] /\ pc["r1"] = "returned"
    /\ ~skipInit["r2"] /\ Has(trace["r2"], "exit:tar") /\ Has(trace["r2"], "spawn:init")

\* C6: a run with a version, invoked with no workspace present, whose fetch,
\* archive tool and (when spawned) initializer have all finished and which
\* has nothing left to do has exited with code 0.
C6_SuccessfulRunExitsZero ==
    \A r \in Runs :
        ( /\ ~VersionMissing(version)
          /\ wsAtInvoke[r] = "absent"
          /\ Has(trace[r], "fetch.done")
          /\ Has(trace[r], "exit:tar")
          /\ Has(trace[r], "spawn:init") => Has(trace[r], "writeMetadata.done")
          /\ Quiescent(r) )
        => (pc[r] = "exited" /\ exitCode[r] = {0})

\* C7: once a run is complete or failed its interval timer is cancelled and
\* its status display is cleared.
C7_ReporterTornDown ==
    \A r \in Runs :
        DownloadState(r) \in {"complete", "failed"} =>
            (~timer[r] /\ ~initProgress[r].spinning)

\* C8: two runs on one project root are never both downloading or unpacking.
C8_NoTwoActiveRuns ==
    \A r1, r2 \in Runs :
        r1 # r2 => ~( /\ pc[r1] \in {"downloading", "unpacking"}
                      /\ pc[r2] \in {"downloading", "unpacking"} )

\* C14: a run starts the fetch, tar and the initializer at most once each;
\* a run whose fetch failed is over, and once the fetch has been started the
\* record of the run's calls only grows: nothing is started over.
C14_NoRetry ==
    /\ [](\A r \in Runs :
            /\ Count(trace[r], "fetch.start") <= 1
            /\ Count(trace[r], "spawn:tar") <= 1
            /\ Count(trace[r], "spawn:init") <= 1
            /\ Has(trace[r], "fetch.fail") => Quiescent(r))
    /\ [][\A r \in Runs :
            Has(trace[r], "fetch.start") =>
                /\ Len(trace'[r]) >= Len(trace[r])
                /\ SubSeq(trace'[r], 1, Len(trace[r])) = trace[r]]_vars

C14_Witness ==
    \E r1, r2 \in Runs :
        /\ Has(trace[r1], "fetch.fail") /\ pc[r1] = "rejected" /\ timer[r1]
        /\ Has(trace[r2], ExitStatus("tar", "1"))
        /\ Has(trace[r2], ExitStatus("init", "1"))
        /\ pc[r2] = "exited"

\* C16: when a run spawns tar the engine directory exists and is empty,
\* whatever it held before.
C16_FreshEngineDir ==
    [][\A r \in Runs :
          (pc[r] = "downloading" /\ pc'[r] = "unpacking") =>
              (engineDir'.exists /\ engineDir'.files = {})]_vars

\* C17: a run starts the artifact download if and only if, when it gets to
\* the check, the platform is win32 and ~/.mozbuild does not exist; the
\* artifact download starts after tar has exited, and the initializer is
\* spawned, or skipped, only after the artifact download is done.
C17_ArtifactsWhenNeeded ==
    /\ [](\A r \in Runs :
            /\ Count(trace[r], "downloadArtifacts.start") <= 1
            /\ Has(trace[r], "downloadArtifacts.start") =>
                 /\ platform = "win32"
                 /\ Before(trace[r], "exit:tar", "downloadArtifacts.start")
                 /\ Before(trace[r], "downloadArtifacts.start", "downloadArtifacts.done")
                 /\ Before(trace[r], "downloadArtifacts.done", "spawn:init")
                 /\ Before(trace[r], "downloadArtifacts.done", "log.info:skip-init")
                 /\ (pc[r] = "artifacts" <=> ~Has(trace[r], "downloadArtifacts.done"))
            /\ Has(trace[r], "downloadArtifacts.done") => Has(trace[r], "downloadArtifacts.start"))
    /\ [][\A r \in Runs :
            (pc[r] = "unpacking" /\ pc'[r] # "unpacking") =>
                (Has(trace'[r], "downloadArtifacts.start")
                   <=> (platform = "win32" /\ ~mozbuild))]_vars

C17_Witness ==
    \E r \in Runs :
        /\ platform = "win32"
        /\ Has(trace[r], "downloadArtifacts.done")
        /\ Has(trace[r], "spawn:init")

\* C19: once the initializer has exited, with whatever status and whatever the
\* status of tar before it, the run is waiting for the metadata to be written
\* or has written it, removed the archive and exited with code 0; a run whose
\* tar has exited is never failed.
C19_StatusIgnored ==
    /\ [](\A r \in Runs :
            /\ Has(trace[r], "exit:init") =>
                 /\ pc[r] \in {"metadata", "exited"}
                 /\ pc[r] = "metadata" =>
                      (Last(trace[r]) = "writeMetadata.start" /\ exitCode[r] = NoExit)
                 /\ pc[r] = "exited" =>
                      /\ exitCode[r] = {0}
                      /\ metadata
                      /\ Before(trace[r], "writeMetadata.done", "removeSync:archive")
                      /\ Before(trace[r], "removeSync:archive", "process.exit(0)")
                      /\ Last(trace[r]) = "process.exit(0)"
            /\ Has(trace[r], "exit:tar") => DownloadState(r) # "failed")
    /\ [][\A r \in Runs :
            (pc[r] = "metadata" /\ pc'[r] # "metadata") =>
                (metadata' /\ SourceFileName(version) \notin engines'.files)]_vars

C19_Witness ==
    \E r \in Runs :
        /\ Has(trace[r], ExitStatus("tar", "1"))
        /\ Has(trace[r], ExitStatus("init", "1"))
        /\ pc[r] = "exited"
        /\ exitCode[r] = {0}
        /\ metadata

\* C20 as stated: the display spins only while the run is unpacking; once
\* the exit of tar is handled the Progress Text is empty and the handle is
\* null, and no step after it changes the handle.
C20_ClearedForGood ==
    /\ [](\A r \in Runs :
            /\ initProgress[r].spinning <=> pc[r] = "unpacking"
            /\ Has(trace[r], "exit:tar") =>
                 (initProgressText[r] = <<>> /\ initProgress[r] = Null))
    /\ [][\A r \in Runs :
            Has(trace[r], "exit:tar") => initProgress'[r] = initProgress[r]]_vars

\* C20: the display spins only while the run is unpacking; the handler of
\* tar's exit leaves the Progress Text empty and the handle null; from then
\* on the handle stays null, so that every tick finds it null and does
\* nothing, and the Progress Text changes only when output of tar is
\* delivered after the exit.
C20_HandleStaysNull ==
    /\ [](\A r \in Runs :
            /\ initProgress[r].spinning <=> pc[r] = "unpacking"
            /\ Has(trace[r], "exit:tar") => initProgress[r] = Null)
    /\ [][\A r \in Runs :
            /\ (pc[r] = "unpacking" /\ pc'[r] # "unpacking") =>
                 (initProgressText'[r] = <<>> /\ initProgress'[r] = Null)
            /\ Has(trace[r], "exit:tar") =>
                 /\ initProgress'[r] = Null
                 /\ initProgressText'[r] # initProgressText[r] =>
                      /\ trace'[r] = trace[r]
                      /\ \E data \in Chunks :
                            initProgressText'[r] = OnData(initProgressText[r], data)]_vars

C20_Witness ==
    \E r \in Runs :
        /\ Has(trace[r], "exit:tar")
        /\ timer[r]
        /\ pc[r] = "returned"
        /\ initProgress[r] = Null
        /\ initProgressText[r] # <<>>

----------------------------------------------------------------------------
(* Properties of the configuration merge *)

\* part occurs in m at index i
At(m, i, part) == SubSeq(m, i, i + Len(part) - 1) = part

\* git failed in the build in progress
GitFailed == Has(bout, GitWarnings[1])

\* C9: the file a build has written starts with the banner, followed by the
\* rendered common fragment, the rendered OS fragment, the rendered user
\* override and the internal fragment, in that order and with one blank line
\* between neighbours; with no override file the override section is empty,
\* the rest is as it would be, and the missing file raises no error.
C9_MergedLayout ==
    written > 0 =>
        LET o == TemplateOptions(changeset, brandingMelon)
            c == StringTemplate(commonFile.content, o)
            f == StringTemplate(OsConfigFile(options.arch, osFile, osFileI686).content, o)
            u == IF customFile.exists THEN StringTemplate(customFile.content, o) ELSE <<>>
            m == mozconfigFile.content
            ic == Len(Banner) + 3
            io == ic + Len(c) + 2
            iu == io + Len(f) + 2
            ii == iu + Len(u) + 2
        IN /\ mozconfigFile.exists
           /\ At(m, 1, Banner)
           /\ At(m, ic - 2, BlankLine) /\ At(m, ic, c)
           /\ At(m, io - 2, BlankLine) /\ At(m, io, f)
           /\ At(m, iu - 2, BlankLine) /\ At(m, iu, u)
           /\ At(m, ii - 2, BlankLine) /\ At(m, ii, InternalConfig)
           /\ Len(m) = ii + Len(InternalConfig) - 1
           /\ ~customFile.exists => (ii = iu + 2 /\ (bpc = "rejected" => ~machExists))

C9_Witness ==
    /\ written > 0
    /\ ~customFile.exists
    /\ bpc = "done"
    /\ options.arch = "i686"
    /\ Has(mozconfigFile.content, "c")

\* C10: when git fails the build is rejected, the merged configuration file
\* is what it was when the build began, and ./mach has not been dispatched.
C10_GitFailureIsFatal ==
    GitFailed =>
        /\ bpc = "rejected"
        /\ written = 0
        /\ mozconfigFile = fileAtStart
        /\ ~machInvoked

C10_Witness ==
    /\ GitFailed
    /\ builds = 2
    /\ fileAtStart.exists
    /\ Has(fileAtStart.content, InternalConfig[1])

\* C11: a build writes the merged configuration file at most once, and exactly
\* once when applyConfig got through; the file then holds the merge of that
\* build's inputs alone, whatever it held before, and a build whose
\* applyConfig did not get through leaves the file as it found it.
C11_WrittenOnceAndReplaced ==
    /\ written \in {0, 1}
    /\ (bpc = "mach" \/ machInvoked) => written = 1
    /\ written = 0 => mozconfigFile = fileAtStart
    /\ written = 1 =>
          mozconfigFile =
              File(ApplyConfigText(changeset, brandingMelon, commonFile,
                                   OsConfigFile(options.arch, osFile, osFileI686),
                                   customFile))

C11_Witness ==
    /\ builds = 2
    /\ written = 1
    /\ bpc = "done"
    /\ Has(fileAtStart.content, InternalConfig[1])
    /\ fileAtStart # mozconfigFile
    /\ Len(mozconfigFile.content) < Len(fileAtStart.content)

----------------------------------------------------------------------------
(* Properties of the settings generator *)

\* the flags of the ac_add_options lines of a text
Flags(lines) ==
    { lines[i][2] : i \in { j \in 1..Len(lines) :
                              Len(lines[j]) >= 2 /\ lines[j][1] = "ac_add_options " } }

\* the flags that set debugging and optimization
DebugOptimizeFlags ==
    { "--disable-debug", "--enable-debug", "--disable-optimize", "--enable-optimize",
      "--enable-rust-simd", "--enable-optimize=" }

KnownPlatforms == { "linux", "darwin", "win32" }

\* C12: for the modes dev, debug and release and every brand the fragment
\* holds the debug and optimize flags of its mode and no other: dev disables
\* debug; debug enables debug and disables optimize; release disables debug,
\* enables optimize and rust-simd and holds the platform line, which is an
\* --enable-optimize="..." option on linux, darwin and win32 and a comment
\* naming the platform on any other platform.
C12_ModeFlags ==
    LET have == Flags(fragment) \cap DebugOptimizeFlags
        platformLine(l) ==
            /\ Len(l) = 4
            /\ l[1] = "ac_add_options " /\ l[2] = "--enable-optimize="
            /\ l[4] = " # Taken from waterfox"
        unknownLine(l) == l = <<"# Unknown platform ", surferPlatform, " # Taken from waterfox">>
    IN /\ buildMode = "dev" => have = {"--disable-debug"}
       /\ buildMode = "debug" => have = {"--enable-debug", "--disable-optimize"}
       /\ buildMode = "release" =>
            /\ {"--disable-debug", "--enable-optimize", "--enable-rust-simd"} \subseteq have
            /\ have \cap {"--enable-debug", "--disable-optimize"} = {}
            /\ IF surferPlatform \in KnownPlatforms
               THEN /\ "--enable-optimize=" \in have
                    /\ \E i \in 1..Len(fragment) : platformLine(fragment[i])
               ELSE /\ "--enable-optimize=" \notin have
                    /\ \E i \in 1..Len(fragment) : unknownLine(fragment[i])

C12_Witness ==
    /\ buildMode = "debug"
    /\ brand = <<"my-", "browser">>
    /\ surferPlatform = "darwin"
    /\ Option("--disable-optimize") \in { fragment[i] : i \in 1..Len(fragment) }

\* C13 as stated: for a mode other than dev, debug and release the text
\* returned is exactly one comment that names the mode as unknown.
C13_OnlyTheComment ==
    buildMode \in {"bogus", ""} => fragment = << <<"# Unknown build mode ", buildMode>> >>

\* C13: for a mode other than dev, debug and release the call returns; the
\* mode-dependent part of the text is exactly one comment line that names the
\* mode as unknown, it stands between the header and the block that every
\* mode gets, and the text holds no debug or optimize flag.
C13_UnknownMode ==
    buildMode \in {"bogus", ""} =>
        /\ fragment = FragmentHeader
                      \o << <<"# Unknown build mode ", buildMode>> >>
                      \o FragmentTail(brand)
        /\ Flags(fragment) \cap DebugOptimizeFlags = {}
        /\ Flags(fragment) = { "--disable-geckodriver", "--disable-profiling",
                               "--disable-tests", "--with-branding=",
                               "--enable-unverified-updates", "--enable-update-channel=" }

C13_Witness ==
    /\ buildMode = "bogus"
    /\ brand = <<"melon">>
    /\ updateHostname = <<>>
    /\ Len(fragment) = 18

----------------------------------------------------------------------------
(* Properties of onData *)

\* the non-blank ones of some lines, in order
NonBlank(lines) == SelectSeq(lines, NotBlank)

\* C15: after any sequence of chunks the Progress Text is the last non-blank
\* line tar has written so far with its first space-delimited token removed,
\* and it is what unpackFirefoxSource set as long as tar has written no
\* non-blank line.
C15_LastLineShown ==
    LET lines == NonBlank(SplitOn(tarOutput, "\n")) IN
        progressText = IF lines = <<>> THEN UnpackingText
                       ELSE ShiftToken(lines[Len(lines)])

----------------------------------------------------------------------------
(* Properties of the git failure path *)

\* the warnings a build has logged, in order
Warnings(log) == SelectSeq(log, LAMBDA x : x.level = "warning")

\* git rev-parse HEAD has failed in the build in progress: the catch block
\* has logged its first warning
GitCaught ==
    Has(bout, Warning(<<"Melon expects that you are building your browser with git as your version control">>))

\* C18 as stated: a build in which git failed has logged exactly three
\* warnings.
C18_ThreeWarnings == GitCaught => Len(Warnings(bout)) = 3

\* C18: a build in which git failed has logged, after the notice that the
\* configuration is being applied, exactly four warnings, the last of them
\* the command to run, with nothing between them and nothing after them, and
\* is rejected.
C18_FourWarnings ==
    GitCaught =>
        /\ Len(bout) = 5
        /\ bout[1].level = "info"
        /\ SubSeq(bout, 2, 5) = Warnings(bout)
        /\ bout[2].msg = <<"Melon expects that you are building your browser with git as your version control">>
        /\ bout[3].msg = <<"If you are using some other version control system, please migrate to git">>
        /\ bout[4].msg = <<"Otherwise, you can setup git in this folder by running:">>
        /\ bout[5].msg = <<"   |git init|">>
        /\ bpc = "rejected"

C18_Witness ==
    /\ Has(bout, Warning(<<"   |git init|">>))
    /\ bpc = "rejected"
    /\ builds = 2

====
